---- MODULE Spec2Model ----
(***************************************************************************)
(* A model of klotski_solver.py: the board, move_piece, possible_moves,    *)
(* baseform, accept and the breadth-first search.                          *)
(*                                                                         *)
(* A piece label is the pair <<type, suffix>>: the string 'w2' is          *)
(* <<"w", 2>>, and a label with no digit after its first character ('r')   *)
(* has suffix 0.  Python orders labels of one type by the rest of the      *)
(* string; for a suffix of at most one digit that is the order of the      *)
(* suffix, the empty one first.                                            *)
(*                                                                         *)
(* A board is a sequence of rows, each a sequence of labels.  Cells are    *)
(* named by the code's 0-based (x, y): x the row, y the column.            *)
(***************************************************************************)
EXTENDS Integers, Sequences, FiniteSets, TLC

VARIABLES
    \* the search (search(board))
    start,      \* the board search was called with
    seen,       \* seen
    worklist,   \* worklist, a sequence of <<board, moves>>, front first
    pc,         \* "while" | "for" | "returned" | "raised" | "idle"
    kboard,     \* kboard of the node being expanded
    kmoves,     \* kmoves of the node being expanded
    gi,         \* position of the possible_moves generator, 1..NumCandidates+1
    result,     \* what search returned
    npop,       \* number of nodes popped so far
    \* calls on single boards
    board,      \* the board at hand
    call,       \* the latest call made on it and what it returned
    nslides     \* number of slides applied to reach board

vars == <<start, seen, worklist, pc, kboard, kmoves, gi, result, npop,
          board, call, nslides>>

searchVars == <<start, seen, worklist, pc, kboard, kmoves, gi, result, npop>>
boardVars == <<board, call, nslides>>

-----------------------------------------------------------------------------
(* Labels *)

H1 == <<"_", 1>>
H2 == <<"_", 2>>
R0 == <<"r", 0>>

HoleLabels == {H1, H2}

\* piece[0]
Type(piece) == piece[1]

\* the rest of the label, which sorted() compares within one type
Suffix(piece) == piece[2]

-----------------------------------------------------------------------------
(* Python indexing of a sequence of length n by i *)

InRange(i, n) == -n <= i /\ i < n

Norm(i, n) == IF i < 0 THEN i + n ELSE i

NRows(b) == Len(b)

NCols(b) == Len(b[1])

\* board[x][y] raises IndexError
IndexFails(b, x, y) == ~InRange(x, NRows(b)) \/ ~InRange(y, NCols(b))

\* board[x][y], for an index that does not raise
At(b, x, y) == b[Norm(x, NRows(b)) + 1][Norm(y, NCols(b)) + 1]

\* new_board[x][y] = v
Put(b, x, y, v) ==
    [b EXCEPT ![Norm(x, NRows(b)) + 1][Norm(y, NCols(b)) + 1] = v]

\* the cells in the order of the two nested range() loops
Cells(b) ==
    [k \in 1..(NRows(b) * NCols(b)) |->
        <<(k - 1) \div NCols(b), (k - 1) % NCols(b)>>]

Pieces(b) == {b[i][j] : i \in 1..NRows(b), j \in 1..NCols(b)}

\* piece_locations(board)[piece]: the cells of piece, row-major
piece_locations(b) ==
    [p \in Pieces(b) |->
        SelectSeq(Cells(b), LAMBDA c : At(b, c[1], c[2]) = p)]

Range(s) == {s[i] : i \in 1..Len(s)}

-----------------------------------------------------------------------------
(* move_piece *)

NoBoard == <<>>

Outcome(k, b) == [kind |-> k, board |-> b]

\* the loop over old_loc: stops at the first cell that raises or is blocked
RECURSIVE move_loop(_, _, _, _, _, _, _, _)
move_loop(b, piece, dx, dy, old_loc, i, displaced, new_board) ==
    IF i > Len(old_loc)
    THEN [kind |-> "ok", displaced |-> displaced, new_board |-> new_board]
    ELSE LET x == old_loc[i][1]
             y == old_loc[i][2]
         IN  IF IndexFails(b, x + dx, y + dy)
             THEN [kind |-> "IndexError", displaced |-> {}, new_board |-> NoBoard]
             ELSE IF At(b, x + dx, y + dy) \notin {H1, H2, piece}
             THEN [kind |-> "None", displaced |-> {}, new_board |-> NoBoard]
             ELSE move_loop(b, piece, dx, dy, old_loc, i + 1,
                            displaced \cup {At(b, x + dx, y + dy)},
                            Put(new_board, x + dx, y + dy, At(b, x, y)))

\* holes = displaced - set([piece])
DroppedPiece(displaced, piece) == displaced

displaced_holes(displaced, piece) == displaced \ {piece}

VacatedNone(old_loc, dx, dy) == {}

\* set(old_loc) - set(new_loc), the tuples compared as they are
vacated(old_loc, dx, dy) ==
    Range(old_loc) \ {<<c[1] + dx, c[2] + dy>> : c \in Range(old_loc)}

\* new_board with every cell of vac set to f of it
RECURSIVE fill(_, _, _)
fill(new_board, vac, f) ==
    IF vac = {} THEN new_board
    ELSE LET c == CHOOSE c \in vac : TRUE
         IN  fill(Put(new_board, c[1], c[2], f[c]), vac \ {c}, f)

\* The set of results move_piece(board, (piece, dx, dy), old_loc) can have.
\* Neither the order in which the vacated cells are visited nor the element
\* holes.pop() removes is fixed by the language, so every assignment of
\* distinct displaced holes to the vacated cells is a result; pop() on an
\* empty set raises KeyError.
move_piece(b, piece, dx, dy, old_loc) ==
    LET l == move_loop(b, piece, dx, dy, old_loc, 1, {}, b)
    IN  IF l.kind # "ok" THEN {Outcome(l.kind, NoBoard)}
        ELSE LET holes == displaced_holes(l.displaced, piece)
                 vac == vacated(old_loc, dx, dy)
             IN  IF Cardinality(holes) < Cardinality(vac)
                 THEN {Outcome("KeyError", NoBoard)}
                 ELSE {Outcome("board", fill(l.new_board, vac, f)) :
                         f \in {g \in [vac -> holes] :
                                  \A c1, c2 \in vac : g[c1] = g[c2] => c1 = c2}}

-----------------------------------------------------------------------------
(* possible_moves *)

Directions == << <<1, 0>>, <<-1, 0>>, <<0, 1>>, <<0, -1>> >>

FirstHoleOnly == <<H1>>

\* (p_locations['_1'][0], p_locations['_2'][0])
HoleOrder == <<H1, H2>>

NumCandidates == Len(HoleOrder) * Len(Directions)

Step(k, b, m) == [kind |-> k, nboard |-> b, nmove |-> m]

NoMove == <<>>

\* What the generator does at its i-th (hole, direction) pair: "skip" (the
\* neighbour is off the board, or move_piece returned None), "yield" of
\* (nboard, nmove), or an exception.
possible_moves(b, i) ==
    LET h == HoleOrder[((i - 1) \div Len(Directions)) + 1]
        d == Directions[((i - 1) % Len(Directions)) + 1]
    IN  IF ~(Range(HoleOrder) \subseteq Pieces(b))
        THEN {Step("KeyError", NoBoard, NoMove)}
        ELSE
        LET p_locations == piece_locations(b)
            hx == p_locations[h][1][1]
            hy == p_locations[h][1][2]
            dx == d[1]
            dy == d[2]
        IN  IF ~(0 <= hx + dx /\ hx + dx < NRows(b)
                 /\ 0 <= hy + dy /\ hy + dy < NCols(b))
            THEN {Step("skip", NoBoard, NoMove)}
            ELSE LET piece == At(b, hx + dx, hy + dy)
                 IN  {IF o.kind = "board"
                        THEN Step("yield", o.board, <<piece, -dx, -dy>>)
                        ELSE IF o.kind = "None"
                        THEN Step("skip", NoBoard, NoMove)
                        ELSE Step(o.kind, NoBoard, NoMove) :
                      o \in move_piece(b, piece, -dx, -dy, p_locations[piece])}

CandidatesUnchecked(b) ==
    LET p_locations == piece_locations(b)
    IN  {<<At(b, n[1][1] + n[2][1], n[1][2] + n[2][2]), -n[2][1], -n[2][2]>> :
            n \in {m \in {p_locations[h][1] : h \in Range(HoleOrder)}
                            \X Range(Directions) :
                     ~IndexFails(b, m[1][1] + m[2][1], m[1][2] + m[2][2])}}

\* the arguments (piece, -dx, -dy) of the move_piece calls possible_moves(b)
\* makes: one for every hole and direction whose neighbour cell passes the
\* bounds test
candidates(b) ==
    LET p_locations == piece_locations(b)
    IN  {<<At(b, n[1][1] + n[2][1], n[1][2] + n[2][2]), -n[2][1], -n[2][2]>> :
            n \in {m \in {p_locations[h][1] : h \in Range(HoleOrder)}
                            \X Range(Directions) :
                     /\ 0 <= m[1][1] + m[2][1] /\ m[1][1] + m[2][1] < NRows(b)
                     /\ 0 <= m[1][2] + m[2][2] /\ m[1][2] + m[2][2] < NCols(b)}}

-----------------------------------------------------------------------------
(* baseform *)

\* uniq_ordered(seq)
RECURSIVE uniq_ordered(_)
uniq_ordered(s) ==
    IF s = <<>> THEN <<>>
    ELSE LET init == uniq_ordered(SubSeq(s, 1, Len(s) - 1))
             x == s[Len(s)]
         IN  IF x \in Range(init) THEN init ELSE Append(init, x)

\* piece for row in board for piece in row
Flat(b) == [k \in 1..(NRows(b) * NCols(b)) |->
              b[((k - 1) \div NCols(b)) + 1][((k - 1) % NCols(b)) + 1]]

\* pieces = uniq_ordered(piece for row in board for piece in row)
pieces_of(b) == uniq_ordered(Flat(b))

\* pgroups[t]: the labels of type t in the order of first occurrence
pgroup(pieces, t) == SelectSeq(pieces, LAMBDA p : Type(p) = t)

\* sorted(pgroups[t]): the labels of one type, ascending
RECURSIVE sorted(_)
sorted(S) ==
    IF S = {} THEN <<>>
    ELSE LET m == CHOOSE m \in S : \A q \in S : Suffix(m) <= Suffix(q)
         IN  <<m>> \o sorted(S \ {m})

\* the position of p in the sequence s
IndexOf(s, p) == CHOOSE i \in 1..Len(s) : s[i] = p

PmapSwapped(b) ==
    LET pieces == pieces_of(b)
    IN  [p \in Range(pieces) |->
            LET g == pgroup(pieces, Type(p))
            IN  g[IndexOf(sorted(Range(g)), p)]]

PmapCollapsed(b) ==
    LET pieces == pieces_of(b)
    IN  [p \in Range(pieces) |-> sorted(Range(pgroup(pieces, Type(p))))[1]]

PmapIdentity(b) == [p \in Range(pieces_of(b)) |-> p]

\* pmap = dict(m for p in pgroups for m in zip(pgroups[p], sorted(pgroups[p])))
pmap(b) ==
    LET pieces == pieces_of(b)
    IN  [p \in Range(pieces) |->
            LET g == pgroup(pieces, Type(p))
            IN  sorted(Range(g))[IndexOf(g, p)]]

Relabel(b, f) == [i \in 1..NRows(b) |-> [j \in 1..NCols(b) |-> f[b[i][j]]]]

baseform(b) == Relabel(b, pmap(b))

-----------------------------------------------------------------------------
(* accept *)

\* board[1][3] == board[1][4] == board[2][3] == board[2][4] == 'r'
accept(b) ==
    /\ At(b, 1, 3) = At(b, 1, 4)
    /\ At(b, 1, 4) = At(b, 2, 3)
    /\ At(b, 2, 3) = At(b, 2, 4)
    /\ At(b, 2, 4) = R0

-----------------------------------------------------------------------------
(* search *)

NoResult == [kind |-> "running", board |-> NoBoard, moves |-> <<>>]

\* seen = set()
init_seen(b) == {}

PushUncompressed(wl, nboard, km, nmove) ==
    Append(wl, <<nboard, Append(km, nmove)>>)

PushKeepLast(wl, nboard, km, nmove) ==
    IF km # <<>> /\ km[Len(km)] = nmove
    THEN <<<<nboard, Append(km, <<nmove[1], 2 * nmove[2], 2 * nmove[3]>>)>>>> \o wl
    ELSE Append(wl, <<nboard, Append(km, nmove)>>)

\* the two ways a new node is put on the worklist: merged with the last move
\* and put at the front when it repeats it, else appended at the back
push(wl, nboard, km, nmove) ==
    IF km # <<>> /\ km[Len(km)] = nmove
    THEN LET nmove2 == <<nmove[1], 2 * nmove[2], 2 * nmove[3]>>
         IN  <<<<nboard, Append(SubSeq(km, 1, Len(km) - 1), nmove2)>>>> \o wl
    ELSE Append(wl, <<nboard, Append(km, nmove)>>)

\* search(board) is entered
search_init(b) ==
    /\ start = b
    /\ seen = init_seen(b)
    /\ worklist = <<<<b, <<>>>>>>
    /\ pc = "while"
    /\ kboard = NoBoard
    /\ kmoves = <<>>
    /\ gi = 0
    /\ result = NoResult
    /\ npop = 0

\* while len(worklist) > 0: kboard, kmoves = worklist.popleft()
Pop ==
    /\ pc = "while"
    /\ worklist # <<>>
    /\ kboard' = Head(worklist)[1]
    /\ kmoves' = Head(worklist)[2]
    /\ worklist' = Tail(worklist)
    /\ gi' = 1
    /\ pc' = "for"
    /\ npop' = npop + 1
    /\ UNCHANGED <<start, seen, result>>

\* the loop ends with the worklist empty: return None
Exhausted ==
    /\ pc = "while"
    /\ worklist = <<>>
    /\ result' = [kind |-> "None", board |-> NoBoard, moves |-> <<>>]
    /\ pc' = "returned"
    /\ UNCHANGED <<start, seen, worklist, kboard, kmoves, gi, npop>>

\* one step of `for nboard, nmove in possible_moves(kboard)` with its body
Visit ==
    /\ pc = "for"
    /\ gi <= NumCandidates
    /\ \E s \in possible_moves(kboard, gi) :
         IF s.kind = "skip"
         THEN /\ gi' = gi + 1
              /\ UNCHANGED <<seen, worklist, pc, result>>
         ELSE IF s.kind = "yield"
         THEN LET bfnboard == baseform(s.nboard)
              IN  IF bfnboard \in seen
                  THEN /\ gi' = gi + 1
                       /\ UNCHANGED <<seen, worklist, pc, result>>
                  ELSE IF accept(s.nboard)
                  THEN /\ result' = [kind |-> "solution", board |-> s.nboard,
                                     moves |-> Append(kmoves, s.nmove)]
                       /\ pc' = "returned"
                       /\ UNCHANGED <<seen, worklist, gi>>
                  ELSE /\ seen' = seen \cup {bfnboard}
                       /\ worklist' = push(worklist, s.nboard, kmoves, s.nmove)
                       /\ gi' = gi + 1
                       /\ UNCHANGED <<pc, result>>
         ELSE /\ result' = [kind |-> s.kind, board |-> NoBoard, moves |-> <<>>]
              /\ pc' = "raised"
              /\ UNCHANGED <<seen, worklist, gi>>
    /\ UNCHANGED <<start, kboard, kmoves, npop>>

\* the generator is exhausted: back to the while test
EndFor ==
    /\ pc = "for"
    /\ gi > NumCandidates
    /\ pc' = "while"
    /\ UNCHANGED <<start, seen, worklist, kboard, kmoves, gi, result, npop>>

-----------------------------------------------------------------------------
(* Boards.  The labels are written as in the source: w1 is 'w1'; H1 and H2 *)
(* are the holes '_1' and '_2'.                                            *)

r == R0
w1 == <<"w", 1>>
w2 == <<"w", 2>>
w3 == <<"w", 3>>
w4 == <<"w", 4>>
w5 == <<"w", 5>>
w6 == <<"w", 6>>
w7 == <<"w", 7>>
g1 == <<"g", 1>>
g2 == <<"g", 2>>
g3 == <<"g", 3>>
g4 == <<"g", 4>>
g5 == <<"g", 5>>

\* the puzzle of the source
start_board ==
    << <<w1, w1, g1, g2, H1>>,
       <<r , r , w2, w3, w4>>,
       <<r , r , w2, w3, w4>>,
       <<w5, w5, g3, g4, H2>> >>

\* a two-cell piece beside both holes
TwoByThree ==
    << <<w1, H1, g1>>,
       <<w1, H2, g2>> >>

\* same-type labels met in the order w2, w3, w1
Unsorted ==
    << <<w2, w2, w3>>,
       <<H1, g1, w3>>,
       <<w1, w1, H2>> >>

\* the smallest board with two pieces
Corner ==
    << <<g1, H1>>,
       <<H2, g2>> >>

\* a board used when the bound on boards is raised
Tall ==
    << <<g2, w2, H2>>,
       <<g1, w2, w1>>,
       <<H1, g3, w1>> >>

\* the boards single calls are made on
Boards == <<start_board, TwoByThree, Unsorted, Corner, Tall>>

\* goal six slides away
Detour ==
    << <<g1, w1, w1, r , r >>,
       <<H1, w2, w2, r , r >>,
       <<g2, g3, H2, g4, g5>> >>

\* no piece can slide, goal not met
Locked ==
    << <<r , r , w1, w1, w2>>,
       <<r , r , w3, H2, w2>>,
       <<w4, H1, w3, w5, w5>>,
       <<w4, w6, w6, g1, g2>> >>

\* no piece can slide, goal met
LockedAtGoal ==
    << <<w1, w1, w2, g1, w3, w3, w4>>,
       <<w5, H1, w2, r , r , H2, w4>>,
       <<w5, w6, w6, r , r , w7, w7>> >>

\* goal met, holes side by side
AtGoal ==
    << <<w1, w1, g1, H1, H2>>,
       <<w2, w2, g2, r , r >>,
       <<w3, w3, g3, r , r >> >>

\* pieces slide but the goal is out of reach
Walled ==
    << <<r , r , w1, g1, H1>>,
       <<r , r , w1, g2, H2>>,
       <<w2, w2, w2, w2, w2>> >>

\* a board used when the bound on boards is raised
Near ==
    << <<g1, w1, w1, r , r >>,
       <<g2, H1, H2, r , r >>,
       <<w2, w2, g3, g4, g5>> >>

\* goal seven slides away
Bend ==
    << <<g1, w1, w1, r , r >>,
       <<H2, g2, w2, r , r >>,
       <<g3, H1, w2, g4, g5>> >>

\* the boards search is run on
SearchBoards == <<Detour, Locked, LockedAtGoal, AtGoal, Walled, Bend, Near>>

-----------------------------------------------------------------------------
(* Bounds *)

\* how many of Boards single calls are made on
NumBoards == 4

\* how many slides are applied to one of Boards
MaxSlides == 2

\* how many of SearchBoards search is run on
NumSearchBoards == 6

Min(a, b) == IF a < b THEN a ELSE b

BoardInputs == {Boards[i] : i \in 1..Min(NumBoards, Len(Boards))}

SearchInputs == {SearchBoards[i] : i \in 1..Min(NumSearchBoards, Len(SearchBoards))}

-----------------------------------------------------------------------------
(* Calls on single boards *)

NoCall == [op |-> "none", piece |-> NoMove, dx |-> 0, dy |-> 0,
           before |-> NoBoard, ret |-> Outcome("none", NoBoard)]

UnitDisplacements == Range(Directions)

\* board becomes one of the boards possible_moves(board) yields
Slide ==
    /\ nslides < MaxSlides
    /\ \E i \in 1..NumCandidates :
         \E s \in possible_moves(board, i) :
            /\ s.kind = "yield"
            /\ board' = s.nboard
            /\ call' = [op |-> "slide", piece |-> s.nmove[1], dx |-> s.nmove[2],
                        dy |-> s.nmove[3], before |-> board,
                        ret |-> Outcome("board", s.nboard)]
    /\ nslides' = nslides + 1
    /\ UNCHANGED searchVars

\* move_piece(board, (piece, dx, dy)) is called with no loc_cache
CallMovePiece ==
    /\ \E piece \in Pieces(board), d \in UnitDisplacements :
         \E o \in move_piece(board, piece, d[1], d[2], piece_locations(board)[piece]) :
            call' = [op |-> "move_piece", piece |-> piece, dx |-> d[1], dy |-> d[2],
                     before |-> board, ret |-> o]
    /\ UNCHANGED <<board, nslides>>
    /\ UNCHANGED searchVars

\* baseform(board) is called
CallBaseform ==
    /\ call' = [op |-> "baseform", piece |-> NoMove, dx |-> 0, dy |-> 0,
                before |-> board, ret |-> Outcome("board", baseform(board))]
    /\ UNCHANGED <<board, nslides>>
    /\ UNCHANGED searchVars

BoardInit ==
    /\ board \in BoardInputs
    /\ call = NoCall
    /\ nslides = 0
    /\ start = NoBoard
    /\ seen = {}
    /\ worklist = <<>>
    /\ pc = "idle"
    /\ kboard = NoBoard
    /\ kmoves = <<>>
    /\ gi = 0
    /\ result = NoResult
    /\ npop = 0

BoardNext == Slide \/ CallMovePiece \/ CallBaseform

BoardSpec == BoardInit /\ [][BoardNext]_vars

-----------------------------------------------------------------------------
(* The search *)

Init ==
    /\ \E b \in SearchInputs : search_init(b)
    /\ board = NoBoard
    /\ call = NoCall
    /\ nslides = 0

Next ==
    \/ Pop /\ UNCHANGED boardVars
    \/ Visit /\ UNCHANGED boardVars
    \/ EndFor /\ UNCHANGED boardVars
    \/ Exhausted /\ UNCHANGED boardVars

Spec == Init /\ [][Next]_vars

\* Visit can be taken: it has a step for whatever possible_moves does
VisitEnabled == pc = "for" /\ gi <= NumCandidates

\* search is one thread that runs on until it returns or raises: the step
\* that can be taken is taken.  The condition on Visit is WF_vars(Visit)
\* written out, with VisitEnabled for ENABLED <<Visit>>_vars.
FairSpec ==
    /\ Spec
    /\ WF_vars(Pop /\ UNCHANGED boardVars)
    /\ WF_vars(EndFor /\ UNCHANGED boardVars)
    /\ WF_vars(Exhausted /\ UNCHANGED boardVars)
    /\ \/ []<>(~VisitEnabled)
       \/ []<><<Visit /\ UNCHANGED boardVars>>_vars

-----------------------------------------------------------------------------
(* Properties of single boards *)

CellSet(b) == Range(Cells(b))

CellsOf(b, p) == {c \in CellSet(b) : At(b, c[1], c[2]) = p}

\* every displaced cell of piece is on the board
OnBoard(b, piece, dx, dy) ==
    \A c \in CellsOf(b, piece) :
        /\ 0 <= c[1] + dx /\ c[1] + dx < NRows(b)
        /\ 0 <= c[2] + dy /\ c[2] + dy < NCols(b)

\* C1: every board reached by slides that possible_moves yields has exactly
\* two hole cells, one labelled '_1' and one labelled '_2'.
HoleInvariant ==
    /\ Cardinality({c \in CellSet(board) : Type(At(board, c[1], c[2])) = "_"}) = 2
    /\ Cardinality(CellsOf(board, H1)) = 1
    /\ Cardinality(CellsOf(board, H2)) = 1

\* a piece of more than one cell has just been slid, after an earlier slide
HoleInvariantWitness ==
    /\ call.op = "slide"
    /\ nslides >= 2
    /\ Cardinality(CellsOf(board, call.piece)) > 1
    /\ HoleInvariant

\* the results of undoing the move of the latest move_piece call
UndoResults ==
    move_piece(call.ret.board, call.piece, -call.dx, -call.dy,
               piece_locations(call.ret.board)[call.piece])

Unholed(b) ==
    [i \in 1..NRows(b) |->
        [j \in 1..NCols(b) |-> IF b[i][j] \in HoleLabels THEN H1 ELSE b[i][j]]]

Blocked(b, piece, dx, dy) ==
    \E c \in CellsOf(b, piece) :
        \/ ~(0 <= c[1] + dx /\ c[1] + dx < NRows(b))
        \/ ~(0 <= c[2] + dy /\ c[2] + dy < NCols(b))
        \/ At(b, c[1] + dx, c[2] + dy) \notin {H1, H2, piece}

\* C8: move_piece returns None, raising nothing and producing no board,
\* whenever a displaced cell is off the board or holds a piece that is
\* neither a hole nor the moved piece.
NoneWhenBlocked ==
    (call.op = "move_piece" /\ Blocked(call.before, call.piece, call.dx, call.dy))
    => call.ret.kind = "None"

\* the permutations of the labels of b that keep every label's type
RECURSIVE PermsOfTypes(_, _)
PermsOfTypes(b, types) ==
    IF types = {} THEN {<<>>}
    ELSE LET t == CHOOSE t \in types : TRUE
         IN  {f @@ g : f \in Permutations({p \in Pieces(b) : Type(p) = t}),
                       g \in PermsOfTypes(b, types \ {t})}

TypePerms(b) == PermsOfTypes(b, {Type(p) : p \in Pieces(b)})

\* C4: baseform gives the same result on the board and on the board with
\* the instance labels permuted within each type.
CanonEquivalence ==
    call.op = "baseform"
    => \A f \in TypePerms(board) : baseform(Relabel(board, f)) = call.ret.board

\* baseform was called on a board whose labels can be permuted
CanonEquivalenceWitness ==
    /\ call.op = "baseform"
    /\ nslides >= 1
    /\ \E f \in TypePerms(board) :
          /\ Relabel(board, f) # board
          /\ baseform(Relabel(board, f)) = call.ret.board

\* C5: baseform applied to a result of baseform returns it unchanged.
CanonIdempotent ==
    call.op = "baseform" => baseform(call.ret.board) = call.ret.board

\* baseform was called and relabelled the board
CanonIdempotentWitness ==
    /\ call.op = "baseform"
    /\ call.ret.board # call.before
    /\ baseform(call.ret.board) = call.ret.board

-----------------------------------------------------------------------------
(* Properties of the search *)

Abs(n) == IF n < 0 THEN -n ELSE n

Sgn(n) == IF n < 0 THEN -1 ELSE IF n > 0 THEN 1 ELSE 0

\* the number of single-cell slides in a move list, a doubled move counted twice
RECURSIVE UnitMoves(_)
UnitMoves(moves) ==
    IF moves = <<>> THEN 0
    ELSE Abs(Head(moves)[2]) + Abs(Head(moves)[3]) + UnitMoves(Tail(moves))

\* sliding piece by (dx, dy) is legal: every displaced cell is on the board
\* and holds a hole or the piece itself
LegalSlide(b, piece, dx, dy) ==
    /\ OnBoard(b, piece, dx, dy)
    /\ \A c \in CellsOf(b, piece) :
          At(b, c[1] + dx, c[2] + dy) \in HoleLabels \cup {piece}

\* the boards a legal slide can leave: the piece on its displaced cells, the
\* holes it covered on the cells it left, every other cell as it was
SlideResults(b, piece, dx, dy) ==
    LET old == CellsOf(b, piece)
        new == {<<c[1] + dx, c[2] + dy>> : c \in old}
        left == old \ new
        covered == {At(b, c[1], c[2]) : c \in new \ old}
    IN  {[i \in 1..NRows(b) |->
            [j \in 1..NCols(b) |->
                IF <<i - 1, j - 1>> \in new THEN piece
                ELSE IF <<i - 1, j - 1>> \in left THEN f[<<i - 1, j - 1>>]
                ELSE b[i][j]]] :
         f \in {g \in [left -> covered] : \A h \in covered : \E c \in left : g[c] = h}}

\* the boards one legal single-cell slide of a piece that is not a hole away
LegalSlides(b) ==
    UNION {SlideResults(b, m[1], m[2][1], m[2][2]) :
             m \in {n \in (Pieces(b) \ HoleLabels) \X UnitDisplacements :
                      LegalSlide(b, n[1], n[2][1], n[2][2])}}

\* the least number of legal slides after which some board of the frontier
\* has become a goal board, counted from d; -1 when there is none
RECURSIVE GoalDepth(_, _, _)
GoalDepth(frontier, visited, d) ==
    IF \E b \in frontier : accept(b) THEN d
    ELSE LET next == UNION {LegalSlides(b) : b \in frontier} \ visited
         IN  IF next = {} THEN -1
             ELSE GoalDepth(next, visited \cup next, d + 1)

\* the breadth-first depth of the nearest goal board from b
Depth(b) == GoalDepth({b}, {b}, 0)

Returned == pc = "returned" /\ result.kind = "solution"

\* C2, for start boards that do not meet the goal: a returned solution has
\* as many single-cell slides as the breadth-first depth of the nearest goal
\* board, so no shorter sequence of legal slides reaches a goal board.
ShortestPath ==
    (Returned /\ ~accept(start)) => UnitMoves(result.moves) = Depth(start)

\* C6: started on a board that meets the goal, search returns that board
\* with an empty move list, having expanded no node.
ZeroMovesAtGoal ==
    (accept(start) /\ pc = "returned")
    => /\ result = [kind |-> "solution", board |-> start, moves |-> <<>>]
       /\ npop = 0

\* possible_moves yields nothing on b
FullyLocked(b) ==
    \A i \in 1..NumCandidates : \A s \in possible_moves(b, i) : s.kind # "yield"

\* C7: started on a fully locked board that does not meet the goal, search
\* returns None with seen holding the canonical form of the start board and
\* nothing else.
LockedSeenStart ==
    (FullyLocked(start) /\ ~accept(start) /\ pc = "returned")
    => /\ result.kind = "None"
       /\ seen = {baseform(start)}

\* two entries slide the same piece in the same direction
SameSlide(m1, m2) ==
    /\ m1[1] = m2[1]
    /\ Sgn(m1[2]) = Sgn(m2[2])
    /\ Sgn(m1[3]) = Sgn(m2[3])

\* C9: the returned move list has no two consecutive entries that slide the
\* same piece in the same direction.
CompressedMoves ==
    Returned
    => \A i \in 1..(Len(result.moves) - 1) :
          ~SameSlide(result.moves[i], result.moves[i + 1])

\* a solution was returned in which a run of two slides is merged
CompressedMovesWitness ==
    /\ Returned
    /\ \E i \in 1..Len(result.moves) :
          Abs(result.moves[i][2]) + Abs(result.moves[i][3]) = 2
    /\ \A i \in 1..(Len(result.moves) - 1) :
          ~SameSlide(result.moves[i], result.moves[i + 1])

\* C10: search returns None exactly when no board reachable from the start
\* board, the start board included, meets the goal.
NoneIffNoGoal ==
    pc = "returned" => (result.kind = "None" <=> Depth(start) = -1)

-----------------------------------------------------------------------------
(* Properties of the boards and nodes of the search *)

\* A node is put on the worklist at its front or at its back, so every node
\* that is ever on the worklist is one of these two in some state.
EndNodes ==
    IF worklist = <<>> THEN {} ELSE {worklist[1], worklist[Len(worklist)]}

\* the boards the search has just taken up: those of the nodes at the ends
\* of the worklist, the one being expanded and the one returned
HeldBoards ==
    {n[1] : n \in EndNodes}
        \cup (IF kboard = NoBoard THEN {} ELSE {kboard})
        \cup (IF result.kind = "solution" THEN {result.board} ELSE {})

\* the number of values from the least to the greatest of a set of integers
Span(S) ==
    (CHOOSE m \in S : \A n \in S : n <= m)
        - (CHOOSE m \in S : \A n \in S : m <= n) + 1

\* the height and width of the smallest rectangle that holds the cells of p
Extent(b, p) ==
    LET cells == CellsOf(b, p)
    IN  <<Span({c[1] : c \in cells}), Span({c[2] : c \in cells})>>

\* the cells of p fill that rectangle
Rectangle(b, p) ==
    LET e == Extent(b, p)
    IN  Cardinality(CellsOf(b, p)) = e[1] * e[2]

\* b is a grid of the size of b0 with the labels of b0, each on a rectangle
\* of the height and width it has in b0
SameShapes(b0, b) ==
    /\ NRows(b) = NRows(b0)
    /\ \A i \in 1..NRows(b) : Len(b[i]) = NCols(b0)
    /\ Pieces(b) = Pieces(b0)
    /\ \A p \in Pieces(b0) : Rectangle(b, p) /\ Extent(b, p) = Extent(b0, p)

\* C11: in every board the search reaches from the start board, every cell
\* holds one label of the start board and the cells of each label form one
\* rectangle of the height and width the label has in the start board.
ShapesKept == \A b \in HeldBoards : SameShapes(start, b)

\* a piece of more than one cell lies somewhere else than in the start
\* board after at least three moves, in its shape
ShapesKeptWitness ==
    \E n \in EndNodes :
        /\ Len(n[2]) >= 3
        /\ \E p \in Pieces(start) :
              /\ Cardinality(CellsOf(start, p)) > 1
              /\ CellsOf(n[1], p) # CellsOf(start, p)
        /\ SameShapes(start, n[1])

\* C12: no two nodes ever put on the worklist have boards of one canonical
\* form.  The seed is put on it on entry with an empty move list, so no
\* node put on it afterwards, whose move list is not empty, has a board of
\* the canonical form of the start board.
EnqueuedOnce ==
    \A n \in EndNodes : baseform(n[1]) = baseform(start) => n[2] = <<>>

-----------------------------------------------------------------------------
(* Properties of possible_moves and of the calls it makes *)

\* the four displacements by one cell along a column or a row
Orthogonal == {d \in (-1..1) \X (-1..1) : Abs(d[1]) + Abs(d[2]) = 1}

\* what possible_moves(b) does at its (hole, direction) pairs, whichever way
\* the hole labels fall
Steps(b) == UNION {possible_moves(b, i) : i \in 1..NumCandidates}

\* the pairs (nboard, nmove) possible_moves(b) can yield
Yielded(b) == {<<s.nboard, s.nmove>> : s \in {t \in Steps(b) : t.kind = "yield"}}

\* the moves among them of pieces that are not holes
YieldedSlides(b) == {y[2] : y \in {z \in Yielded(b) : z[2][1] \notin HoleLabels}}

\* the legal slides by one cell of the pieces of b that are not holes
LegalUnitSlides(b) ==
    {<<n[1], n[2][1], n[2][2]>> :
        n \in {m \in (Pieces(b) \ HoleLabels) \X Orthogonal :
                 LegalSlide(b, m[1], m[2][1], m[2][2])}}

\* C13: possible_moves raises nothing; the moves (piece, dx, dy) it yields
\* for pieces that are not holes are the legal slides by one cell of the
\* board, and the boards it yields with such a move are the results of
\* that slide.
GeneratorExact ==
    /\ \A s \in Steps(board) : s.kind \in {"skip", "yield"}
    /\ YieldedSlides(board) = LegalUnitSlides(board)
    /\ \A m \in YieldedSlides(board) :
          {y[1] : y \in {z \in Yielded(board) : z[2] = m}}
              = SlideResults(board, m[1], m[2], m[3])

\* a slide that possible_moves yielded has been made; it was legal, and on
\* the board it was made on some piece beside a hole could not slide into it
GeneratorExactWitness ==
    /\ call.op = "slide"
    /\ call.piece \notin HoleLabels
    /\ <<call.piece, call.dx, call.dy>> \in LegalUnitSlides(call.before)
    /\ board \in SlideResults(call.before, call.piece, call.dx, call.dy)
    /\ \E s \in Steps(call.before) : s.kind = "skip"
    /\ \E p \in Pieces(call.before) \ HoleLabels, d \in Orthogonal :
          /\ \E c \in CellsOf(call.before, p) :
                /\ OnBoard(call.before, p, d[1], d[2])
                /\ At(call.before, c[1] + d[1], c[2] + d[2]) \in HoleLabels
          /\ ~LegalSlide(call.before, p, d[1], d[2])
    /\ YieldedSlides(call.before) = LegalUnitSlides(call.before)

\* the cell that board[x][y] names
Named(b, x, y) == <<Norm(x, NRows(b)), Norm(y, NCols(b))>>

\* the cells board[x+dx][y+dy] names for the cells (x, y) of piece
DisplacedCells(b, piece, dx, dy) ==
    {Named(b, c[1] + dx, c[2] + dy) : c \in CellsOf(b, piece)}

\* the cells of piece that are not among its displaced cells
VacatedCells(b, piece, dx, dy) ==
    CellsOf(b, piece) \ DisplacedCells(b, piece, dx, dy)

\* C14: after move_piece(B, (p, dx, dy)) has returned a board, the cells
\* of the result that hold p are the displaced cells of p, every cell p
\* vacated holds a hole label, every other cell holds the label it holds in
\* B, and B is as it was before the call.
MoveEffect ==
    (call.op = "move_piece" /\ call.ret.kind = "board")
    => LET b == call.before
           nb == call.ret.board
           new == DisplacedCells(b, call.piece, call.dx, call.dy)
           left == VacatedCells(b, call.piece, call.dx, call.dy)
       IN  /\ NRows(nb) = NRows(b)
           /\ \A i \in 1..NRows(nb) : Len(nb[i]) = NCols(b)
           /\ CellsOf(nb, call.piece) = new
           /\ \A c \in left : At(nb, c[1], c[2]) \in HoleLabels
           /\ \A c \in CellSet(b) \ (new \cup left) :
                 At(nb, c[1], c[2]) = At(b, c[1], c[2])
           /\ board = b

\* a piece of two cells was moved along its length: one displaced cell was
\* its own, one cell was vacated, and the result differs from the board
MoveEffectWitness ==
    /\ call.op = "move_piece"
    /\ call.ret.kind = "board"
    /\ nslides >= 1
    /\ Cardinality(CellsOf(call.before, call.piece)) = 2
    /\ Cardinality(VacatedCells(call.before, call.piece, call.dx, call.dy)) = 1
    /\ CellsOf(call.ret.board, call.piece)
          = DisplacedCells(call.before, call.piece, call.dx, call.dy)
    /\ call.ret.board # call.before
    /\ board = call.before

-----------------------------------------------------------------------------
(* Properties of the move lists of the search *)

\* the boards one slide of piece by (dx, dy) leaves from the boards of S;
\* none when the slide is not legal on one of them
SlideAll(S, piece, dx, dy) ==
    IF \A b \in S : piece \in Pieces(b) /\ LegalSlide(b, piece, dx, dy)
    THEN UNION {SlideResults(b, piece, dx, dy) : b \in S}
    ELSE {}

\* the boards the entries of moves leave, made in order from the boards of
\* S: an entry of one cell is one slide, an entry of two cells is two slides
\* of one cell of the same piece in the same direction
RECURSIVE Replay(_, _)
Replay(S, moves) ==
    IF moves = <<>> THEN S
    ELSE LET m == Head(moves)
             dx == Sgn(m[2])
             dy == Sgn(m[3])
             cells == Abs(m[2]) + Abs(m[3])
             once == SlideAll(S, m[1], dx, dy)
         IN  IF m[2] # 0 /\ m[3] # 0 THEN {}
             ELSE IF cells = 1 THEN Replay(once, Tail(moves))
             ELSE IF cells = 2
             THEN Replay(SlideAll(once, m[1], dx, dy), Tail(moves))
             ELSE {}

\* moves, replayed from the start board, is a sequence of legal slides that
\* ends in b: in b itself for some fall of the hole labels, and in b with
\* the hole labels exchanged at most, for every fall
LeadsTo(moves, b) ==
    LET ends == Replay({start}, moves)
    IN  /\ b \in ends
        /\ \A c \in ends : Unholed(c) = Unholed(b)

\* C15: the move list of every node put on the worklist, and the one
\* returned, replayed from the start board with an entry of two cells made
\* as two slides, is a sequence of legal slides that ends in the board of
\* the node; the board returned meets the goal.
NodesReplay ==
    /\ \A n \in EndNodes : LeadsTo(n[2], n[1])
    /\ kboard # NoBoard => LeadsTo(kmoves, kboard)
    /\ Returned => LeadsTo(result.moves, result.board) /\ accept(result.board)

\* a solution of at least four entries, one of them of two cells, was
\* returned and replays to the board returned
NodesReplayWitness ==
    /\ Returned
    /\ Len(result.moves) >= 4
    /\ \E i \in 1..Len(result.moves) :
          Abs(result.moves[i][2]) + Abs(result.moves[i][3]) = 2
    /\ LeadsTo(result.moves, result.board)
    /\ accept(result.board)

-----------------------------------------------------------------------------
(* Properties of the move_piece calls possible_moves makes *)

\* the latest call is one possible_moves makes on the board it was made on
IssuedCall ==
    /\ call.op = "move_piece"
    /\ <<call.piece, call.dx, call.dy>> \in candidates(call.before)

\* the loop of move_piece over the cells of the piece, in the latest call
CallLoop ==
    move_loop(call.before, call.piece, call.dx, call.dy,
              piece_locations(call.before)[call.piece], 1, {}, call.before)

InsideGrid ==
    IssuedCall
    => /\ OnBoard(call.before, call.piece, call.dx, call.dy)
       /\ call.ret.kind # "IndexError"

\* possible_moves moved a piece that lies at an edge of the grid away from
\* that edge, after an earlier slide; the opposite displacement leaves the
\* grid
InsideGridWitness ==
    /\ IssuedCall
    /\ nslides >= 1
    /\ Cardinality(CellsOf(call.before, call.piece)) > 1
    /\ OnBoard(call.before, call.piece, call.dx, call.dy)
    /\ ~OnBoard(call.before, call.piece, -call.dx, -call.dy)

-----------------------------------------------------------------------------
(* Termination of the search *)

\* C17: search ends: after finitely many steps it has returned, either a
\* solution or, the worklist empty, None; it does not run for ever and does
\* not end by raising.
Terminates == <>(pc = "returned" /\ result.kind \in {"solution", "None"})

\* search returned None when the worklist ran empty after several nodes
\* were expanded
TerminatesWitness ==
    /\ pc = "returned"
    /\ result.kind = "None"
    /\ worklist = <<>>
    /\ npop >= 3

-----------------------------------------------------------------------------
(* Properties of baseform as the key of seen *)

\* the boards possible_moves yields at the step the search is at
NowYielded ==
    IF pc = "for" /\ gi <= NumCandidates
    THEN {t.nboard : t \in {u \in possible_moves(kboard, gi) : u.kind = "yield"}}
    ELSE {}

\* the boards the search has at hand
AtHand == HeldBoards \cup NowYielded \cup {start}

\* each of them with its canonical form, and each of these canonical forms,
\* which are what seen holds, with its own
Canonical ==
    LET canon == {<<b, baseform(b)>> : b \in AtHand}
    IN  canon \cup {<<t[2], baseform(t[2])>> : t \in canon}

\* b2 is b1 with its labels permuted within their types: the pairs (label
\* in b1, label in b2) of the cells give every label of b1 one label, these
\* are the labels of b1 again, and each has the type of the label it
\* replaces
PermutedWithinTypes(b1, b2) ==
    /\ NRows(b2) = NRows(b1)
    /\ \A i \in 1..NRows(b2) : Len(b2[i]) = NCols(b1)
    /\ LET pairs == {<<At(b1, c[1], c[2]), At(b2, c[1], c[2])>> : c \in CellSet(b1)}
       IN  /\ Cardinality(pairs) = Cardinality(Pieces(b1))
           /\ {q[2] : q \in pairs} = Pieces(b1)
           /\ \A q \in pairs : Type(q[2]) = Type(q[1])

\* C19: two boards with the same baseform are one another with the labels
\* permuted within their types, so every cell holds the same type in both
\* and the cells fall into the same pieces; and they agree on accept.
CanonSound ==
    LET canon == Canonical
    IN  \A t1, t2 \in canon :
            t1[2] = t2[2]
            => /\ PermutedWithinTypes(t1[1], t2[1])
               /\ accept(t1[1]) <=> accept(t2[1])

\* a board is yielded whose canonical form is in seen, so that it is
\* dropped, and that differs from its canonical form in a label that is
\* not a hole
CanonSoundWitness ==
    \E b1 \in NowYielded :
        /\ baseform(b1) \in seen
        /\ Unholed(baseform(b1)) # Unholed(b1)
        /\ PermutedWithinTypes(b1, baseform(b1))

-----------------------------------------------------------------------------
(* Properties of the moves returned *)

\* C20: no entry of a returned move list moves a hole.
NoHoleMoves ==
    Returned => \A i \in 1..Len(result.moves) : result.moves[i][1] \notin HoleLabels

====
